---- MODULE Spec2Model ----
(***************************************************************************)
(* SquatAnalyzer (src/squat_analyzer.py): the per-frame analysis engine.   *)
(*                                                                         *)
(* One instance is the state; analyze(landmarks, w, h) is the only         *)
(* operation.  Angles are whole degrees, pixel coordinates are integers,   *)
(* time.time() is a clock in whole seconds that never runs backwards.      *)
(* A frame is the set of measurements analyze reads from the landmarks:    *)
(* per-side visibility, pixel coordinates, shoulder depth and the angles   *)
(* calculate_angle returns for the knees and the torso.                    *)
(***************************************************************************)
EXTENDS Integers, Sequences, FiniteSets, TLC

VARIABLES
    state,                  \* self.state
    rep_count,              \* self.rep_count
    correct_reps,           \* self.correct_reps
    incorrect_reps,         \* self.incorrect_reps
    current_rep_quality,    \* self.current_rep_quality ({} or the last rep result)
    feedback,               \* self.feedback
    advice,                 \* self.advice
    state_counter,          \* self.state_counter (debounce counter)
    min_knee_angle,         \* self.min_knee_angle
    rep_start_time,         \* self.rep_start_time
    descent_duration,       \* self.descent_duration
    ascent_duration,        \* self.ascent_duration
    bottom_start_time,      \* self.bottom_start_time
    bottom_duration,        \* self.bottom_duration
    knee_valgus_flags,      \* self.knee_valgus_flags
    back_angle_flags,       \* self.back_angle_flags
    heel_lift_flags,        \* self.heel_lift_flags
    knee_over_toes_flags,   \* self.knee_over_toes_flags, meaningful once the attribute exists
    has_knee_over_toes_flags, \* whether the attribute self.knee_over_toes_flags exists
    now,                    \* the value time.time() returned last
    frame,                  \* the argument of the last call of analyze
    result,                 \* what the last call of analyze returned (or raised)
    dip,                    \* history: frames in a row below the descend threshold in STANDING
    plateau,                \* position in the scripted angle sequence (SpecSeq)
    held,                   \* frames delivered on the current plateau (SpecSeq)
    seq_t1,                 \* clock at the fifth frame of the second plateau (SpecSeq)
    seq_t2,                 \* clock at the fifth frame of the last plateau (SpecSeq)
    visited,                \* history: the phases the analyzer went through, in order (SpecSeq)
    twin,                   \* a second analyzer after scoring the same rep (SpecTwin)
    points,                 \* the arguments of calculate_angle and a translation (SpecAngle)
    angles,                 \* what calculate_angle returned for them (SpecAngle)
    run_phase,              \* history: the phase the last call started in (SpecDebounce)
    streak,                 \* history: frames delivered in a row, the last one included, on
                            \* which the phase's qualifying condition held (SpecDebounce)
    run_counted,                \* history: the same run over the frames on which analyze reached
                            \* its state machine only (SpecDebounce)
    seen,                   \* history: per fault, the frames showing it since the last
                            \* DESCENDING commit, up to the completion (SpecOverride)
    standing_run            \* history: whether only upright frames arrive from now on, and
                            \* the phase, rep count and frames since they began (SpecStand)

avars == <<state, rep_count, correct_reps, incorrect_reps, current_rep_quality,
           feedback, advice, state_counter, min_knee_angle, rep_start_time,
           descent_duration, ascent_duration, bottom_start_time, bottom_duration,
           knee_valgus_flags, back_angle_flags, heel_lift_flags,
           knee_over_toes_flags, has_knee_over_toes_flags>>

vars == <<state, rep_count, correct_reps, incorrect_reps, current_rep_quality,
          feedback, advice, state_counter, min_knee_angle, rep_start_time,
          descent_duration, ascent_duration, bottom_start_time, bottom_duration,
          knee_valgus_flags, back_angle_flags, heel_lift_flags,
          knee_over_toes_flags, has_knee_over_toes_flags,
          now, frame, result, dip, plateau, held, seq_t1, seq_t2, visited,
          twin, points, angles, run_phase, streak, run_counted, seen, standing_run>>

\* the history variables of SpecDebounce
hist == <<run_phase, streak, run_counted, seen, standing_run>>

\* the variables only SpecTwin, SpecAngle and SpecDebounce use
aux == <<twin, points, angles, run_phase, streak, run_counted, seen, standing_run>>

(***************************************************************************)
(* Bounds of the model.                                                    *)
(***************************************************************************)
\* the clock stops advancing at MaxTime seconds
MaxTime == 2
\* a frame showing a fault is delivered only while the fault counters of the
\* current accumulation sum to less than MaxFlags
MaxFlags == 1

(***************************************************************************)
(* Program constants.                                                      *)
(***************************************************************************)
state_transition_threshold == 4
stand_threshold == 160
descend_threshold == 140
deep_threshold == 98
bottom_margin == 10
visibility_threshold == 50
view_ratio_tenths == 4
valgus_ratio_percent == 63
knee_tolerance == 85
heel_lift_threshold == 75
back_angle_threshold == 38
min_rep_time == 1
fast_descent_time == 1
shallow_angle == 115
borderline_angle == 105
symmetry_threshold == 10
minor_flags == 5
critical_valgus_flags == 30
critical_knee_over_toes_flags == 45
critical_heel_lift_flags == 30
critical_back_angle_flags == 45

Min(a, b) == IF a < b THEN a ELSE b
Max(a, b) == IF a > b THEN a ELSE b
Abs(a) == IF a < 0 THEN -a ELSE a

\* {} : the empty dict
EmptyDict == [k \in {} |-> 0]

\* dict.get(key, default)
Get(d, key, default) == IF key \in DOMAIN d THEN d[key] ELSE default

\* a feedback string; the f-string "Rep {n}: {comments}" keeps its two parts
Msg(text) == [text |-> text, rep |-> 0, comments |-> <<>>]
RepMsg(n, comments) == [text |-> "Rep n: comments", rep |-> n, comments |-> comments]

(***************************************************************************)
(* The analyzer as a record, so that sequential code reads as composition. *)
(***************************************************************************)
Self ==
    [state |-> state, rep_count |-> rep_count, correct_reps |-> correct_reps,
     incorrect_reps |-> incorrect_reps, current_rep_quality |-> current_rep_quality,
     feedback |-> feedback, advice |-> advice, state_counter |-> state_counter,
     min_knee_angle |-> min_knee_angle, rep_start_time |-> rep_start_time,
     descent_duration |-> descent_duration, ascent_duration |-> ascent_duration,
     bottom_start_time |-> bottom_start_time, bottom_duration |-> bottom_duration,
     knee_valgus_flags |-> knee_valgus_flags, back_angle_flags |-> back_angle_flags,
     heel_lift_flags |-> heel_lift_flags, knee_over_toes_flags |-> knee_over_toes_flags,
     has_knee_over_toes_flags |-> has_knee_over_toes_flags]

\* SquatAnalyzer.__init__: knee_over_toes_flags is not among the attributes set
NewAnalyzer ==
    [state |-> "STANDING", rep_count |-> 0, correct_reps |-> 0,
     incorrect_reps |-> 0, current_rep_quality |-> EmptyDict,
     feedback |-> Msg(""), advice |-> "", state_counter |-> 0,
     min_knee_angle |-> 180, rep_start_time |-> 0,
     descent_duration |-> 0, ascent_duration |-> 0,
     bottom_start_time |-> 0, bottom_duration |-> 0,
     knee_valgus_flags |-> 0, back_angle_flags |-> 0,
     heel_lift_flags |-> 0, knee_over_toes_flags |-> 0,
     has_knee_over_toes_flags |-> FALSE]

\* _reset_rep_stats, called at time t
\* mutant of reset_rep_stats: the heel-lift counter is left out
reset_rep_stats_keeps_heel_lift(s, t) ==
    [s EXCEPT !.min_knee_angle = 180, !.rep_start_time = t,
              !.descent_duration = 0, !.ascent_duration = 0,
              !.bottom_start_time = 0, !.bottom_duration = 0,
              !.knee_valgus_flags = 0, !.back_angle_flags = 0,
              !.knee_over_toes_flags = 0, !.has_knee_over_toes_flags = TRUE,
              !.advice = "", !.current_rep_quality = EmptyDict]

reset_rep_stats(s, t) ==
    [s EXCEPT !.min_knee_angle = 180, !.rep_start_time = t,
              !.descent_duration = 0, !.ascent_duration = 0,
              !.bottom_start_time = 0, !.bottom_duration = 0,
              !.knee_valgus_flags = 0, !.back_angle_flags = 0,
              !.knee_over_toes_flags = 0, !.has_knee_over_toes_flags = TRUE,
              !.heel_lift_flags = 0, !.advice = "",
              !.current_rep_quality = EmptyDict]

(***************************************************************************)
(* _get_feedback_advice                                                    *)
(***************************************************************************)
pro_tips ==
    {"Light weight baby! Brace that core.",
     "Ass to grass! Drive with your hips.",
     "Clean rep. Keep squeezing the glutes.",
     "Textbook. Don't let the tension drop.",
     "Easy money! Focus on bar speed.",
     "Butter! Stay tight at the bottom."}

\* advice_map, in insertion order
advice_keys ==
    <<"Shallow", "Too shallow", "Depth could be better", "Valgus", "Knee valgus",
      "Knee Valgus (caving in)", "Knee Over Toes", "Knees crossed toes",
      "Heel Lift", "Heels lifted", "Back Lean", "Leaning forward",
      "Dive bomb (too fast)", "Asymmetrical">>

advice_map(key) ==
    CASE key \in {"Shallow", "Too shallow"} -> "Ass to grass! Don't cheat depth."
      [] key = "Depth could be better" -> "Get lower. Parallel at least."
      [] key \in {"Valgus", "Knee valgus", "Knee Valgus (caving in)"} -> "Knees OUT! Fight the cave."
      [] key \in {"Knee Over Toes", "Knees crossed toes"} -> "Sit back! Save your knees."
      [] key \in {"Heel Lift", "Heels lifted"} -> "Heels GLUED to the floor."
      [] key \in {"Back Lean", "Leaning forward"} -> "Chest UP! This isn't a Good Morning."
      [] key = "Dive bomb (too fast)" -> "Stop dive bombing! Control it."
      [] key = "Asymmetrical" -> "Stop shifting. Push evenly."

\* `key in fault`: case-sensitive substring test, over the strings the scorer produces
KeyInFault(key, fault) ==
    \/ key = fault
    \/ key = "Knee valgus" /\ fault = "Knee valgus (caving in)"

\* the keys of advice_map that occur in fault, as indices of advice_keys
MatchingKeys(fault) == {i \in DOMAIN advice_keys : KeyInFault(advice_keys[i], fault)}

FirstKey(fault) == CHOOSE i \in MatchingKeys(fault) : \A j \in MatchingKeys(fault) : i <= j

\* the faults that match some key, as indices of faults
MatchedFaults(faults) == {n \in DOMAIN faults : MatchingKeys(faults[n]) # {}}

\* tip is the outcome of random.choice(pro_tips)
\* mutant of get_feedback_advice: the tip is drawn whatever the faults are
get_feedback_advice_tip_first(faults, tip) == tip

get_feedback_advice(faults, tip) ==
    IF faults = <<>> THEN tip
    ELSE IF MatchedFaults(faults) = {} THEN "Improve form."
    ELSE LET n == CHOOSE i \in MatchedFaults(faults) : \A j \in MatchedFaults(faults) : i <= j
         IN  advice_map(advice_keys[FirstKey(faults[n])])

(***************************************************************************)
(* _score_rep                                                              *)
(***************************************************************************)
When(cond, item) == IF cond THEN <<item>> ELSE <<>>

depth_deduction(s) ==
    IF s.min_knee_angle > shallow_angle THEN <<"Too shallow">>
    ELSE IF s.min_knee_angle > borderline_angle THEN <<"Depth could be better">>
    ELSE <<>>

\* mutant of deductions: the lean deduction starts above the critical count
deductions_late_lean(s, symmetry_diff) ==
    depth_deduction(s)
    \o When(s.descent_duration < fast_descent_time, "Dive bomb (too fast)")
    \o When(symmetry_diff > symmetry_threshold, "Asymmetrical")
    \o When(s.back_angle_flags > critical_back_angle_flags + minor_flags, "Leaning forward")
    \o When(s.knee_valgus_flags > minor_flags, "Knee valgus (caving in)")
    \o When(s.knee_over_toes_flags > minor_flags, "Knees crossed toes")
    \o When(s.heel_lift_flags > minor_flags, "Heels lifted")

\* mutant of deductions: one flagged frame is enough for a deduction
deductions_any_flag(s, symmetry_diff) ==
    depth_deduction(s)
    \o When(s.descent_duration < fast_descent_time, "Dive bomb (too fast)")
    \o When(symmetry_diff > symmetry_threshold, "Asymmetrical")
    \o When(s.back_angle_flags > 0, "Leaning forward")
    \o When(s.knee_valgus_flags > 0, "Knee valgus (caving in)")
    \o When(s.knee_over_toes_flags > 0, "Knees crossed toes")
    \o When(s.heel_lift_flags > 0, "Heels lifted")

deductions(s, symmetry_diff) ==
    depth_deduction(s)
    \o When(s.descent_duration < fast_descent_time, "Dive bomb (too fast)")
    \o When(symmetry_diff > symmetry_threshold, "Asymmetrical")
    \o When(s.back_angle_flags > minor_flags, "Leaning forward")
    \o When(s.knee_valgus_flags > minor_flags, "Knee valgus (caving in)")
    \o When(s.knee_over_toes_flags > minor_flags, "Knees crossed toes")
    \o When(s.heel_lift_flags > minor_flags, "Heels lifted")

\* mutant of penalty: every deduction costs the same
penalty_flat(deduction) == 10

penalty(deduction) ==
    CASE deduction = "Too shallow" -> 20
      [] deduction \in {"Depth could be better", "Dive bomb (too fast)",
                        "Asymmetrical", "Leaning forward"} -> 10
      [] deduction \in {"Knee valgus (caving in)", "Knees crossed toes",
                        "Heels lifted"} -> 15

RECURSIVE total_penalty(_)
total_penalty(ds) == IF ds = <<>> THEN 0 ELSE penalty(Head(ds)) + total_penalty(Tail(ds))

\* mutant of critical_faults: the depth fault is judged against another angle
critical_faults_lenient_depth(s) ==
    When(s.min_knee_angle > shallow_angle + 5, "Shallow")
    \o When(s.knee_valgus_flags > critical_valgus_flags, "Valgus")
    \o When(s.knee_over_toes_flags > critical_knee_over_toes_flags, "Knee Over Toes")
    \o When(s.heel_lift_flags > critical_heel_lift_flags, "Heel Lift")
    \o When(s.back_angle_flags > critical_back_angle_flags, "Back Lean")

\* mutant of critical_faults: valgus is critical from its earlier threshold of 15 frames
critical_faults_valgus_15(s) ==
    When(s.min_knee_angle > shallow_angle, "Shallow")
    \o When(s.knee_valgus_flags > 15, "Valgus")
    \o When(s.knee_over_toes_flags > critical_knee_over_toes_flags, "Knee Over Toes")
    \o When(s.heel_lift_flags > critical_heel_lift_flags, "Heel Lift")
    \o When(s.back_angle_flags > critical_back_angle_flags, "Back Lean")

critical_faults(s) ==
    When(s.min_knee_angle > shallow_angle, "Shallow")
    \o When(s.knee_valgus_flags > critical_valgus_flags, "Valgus")
    \o When(s.knee_over_toes_flags > critical_knee_over_toes_flags, "Knee Over Toes")
    \o When(s.heel_lift_flags > critical_heel_lift_flags, "Heel Lift")
    \o When(s.back_angle_flags > critical_back_angle_flags, "Back Lean")

rep_quality(s, symmetry_diff) ==
    LET ds == deductions(s, symmetry_diff)
    IN  [score |-> Max(0, 100 - total_penalty(ds)),
         depth |-> s.min_knee_angle,
         descent_time |-> s.descent_duration,
         comments |-> IF ds = <<>> THEN <<"Good Rep!">> ELSE ds]

\* mutant of count_rep: the else is missing
count_rep_no_else(s, critical) ==
    IF critical = <<>>
    THEN [s EXCEPT !.correct_reps = @ + 1, !.incorrect_reps = @ + 1]
    ELSE [s EXCEPT !.incorrect_reps = @ + 1]

count_rep(s, critical) ==
    IF critical = <<>>
    THEN [s EXCEPT !.correct_reps = @ + 1]
    ELSE [s EXCEPT !.incorrect_reps = @ + 1]

\* mutant of score_rep: the advice looks at the deductions before the critical faults
score_rep_deductions_first(s, symmetry_diff, tip) ==
    LET quality == rep_quality(s, symmetry_diff)
        critical == critical_faults(s)
    IN  [count_rep(s, critical) EXCEPT
            !.current_rep_quality = quality,
            !.advice = get_feedback_advice(deductions(s, symmetry_diff) \o critical, tip),
            !.feedback = RepMsg(s.rep_count, quality.comments)]

score_rep(s, symmetry_diff, tip) ==
    LET quality == rep_quality(s, symmetry_diff)
        critical == critical_faults(s)
        counted == count_rep(s, critical)
    IN  [counted EXCEPT
            !.current_rep_quality = quality,
            !.advice = get_feedback_advice(critical \o deductions(s, symmetry_diff), tip),
            !.feedback = RepMsg(s.rep_count, quality.comments)]

(***************************************************************************)
(* The measurements analyze takes from a frame (lines 89-272).             *)
(***************************************************************************)
\* all(visibility > 0.5) over the six landmarks of a side; v is the least of
\* the six, in hundredths
is_visible_inclusive(v) == v >= visibility_threshold

is_visible(v) == v > visibility_threshold

is_left_visible(f) == is_visible(f.l_visibility)
is_right_visible(f) == is_visible(f.r_visibility)

shoulder_width(f) == Abs(f.l_shoulder_x - f.r_shoulder_x)

\* twice torso_height: the two averages are halves of integer sums
torso_height2(f) == Abs((f.l_shoulder_y + f.r_shoulder_y) - (f.l_hip_y + f.r_hip_y))

\* mutant of is_side_view: the ratio 0.4 itself counts as a side view
is_side_view_inclusive(sw, th2) == th2 > 0 /\ 2 * 10 * sw <= view_ratio_tenths * th2

\* shoulder_width / torso_height < 0.4, over the integers
is_side_view(sw, th2) == th2 > 0 /\ 2 * 10 * sw < view_ratio_tenths * th2

view(f) == IF is_side_view(shoulder_width(f), torso_height2(f)) THEN "SIDE" ELSE "FRONT"

active_side(f) ==
    IF view(f) = "FRONT" THEN "BOTH"
    ELSE IF ~is_right_visible(f) /\ is_left_visible(f) THEN "LEFT"
    ELSE IF ~is_left_visible(f) /\ is_right_visible(f) THEN "RIGHT"
    ELSE IF f.l_z < f.r_z THEN "LEFT"
    ELSE "RIGHT"

\* (l + r) / 2.0; the frames of the model have l + r even
Average(l, r) == (l + r) \div 2

current_knee_angle(f) ==
    IF view(f) = "FRONT" THEN Average(f.l_knee_angle, f.r_knee_angle)
    ELSE IF active_side(f) = "LEFT" THEN f.l_knee_angle
    ELSE f.r_knee_angle

current_torso_angle(f) ==
    IF view(f) = "FRONT" THEN Average(f.l_torso_angle, f.r_torso_angle)
    ELSE IF active_side(f) = "LEFT" THEN f.l_torso_angle
    ELSE f.r_torso_angle

symmetry_diff(f) ==
    IF view(f) = "FRONT" THEN Abs(f.l_knee_angle - f.r_knee_angle) ELSE 0

\* knee_width < ankle_width * 0.63, over the integers
knees_narrower_inclusive(knee_width, ankle_width) ==
    100 * knee_width <= valgus_ratio_percent * ankle_width

knees_narrower(knee_width, ankle_width) ==
    100 * knee_width < valgus_ratio_percent * ankle_width

valgus_detected(f) ==
    /\ view(f) = "FRONT"
    /\ knees_narrower(Abs(f.l_knee_x - f.r_knee_x), Abs(f.l_ankle_x - f.r_ankle_x))

\* the knee-over-toe check of one side
knee_crosses_toe(toe_x, ankle_x, knee_x) ==
    IF toe_x < ankle_x
    THEN knee_x < toe_x - knee_tolerance
    ELSE knee_x > toe_x + knee_tolerance

knee_over_toes(f) ==
    /\ view(f) = "SIDE"
    /\ IF active_side(f) = "LEFT"
       THEN knee_crosses_toe(f.l_toe_x, f.l_ankle_x, f.l_knee_x)
       ELSE knee_crosses_toe(f.r_toe_x, f.r_ankle_x, f.r_knee_x)

heel_lifted(heel_py, toe_py) == heel_py < toe_py - heel_lift_threshold

heel_lift_detected(f) ==
    IF view(f) = "SIDE"
    THEN IF active_side(f) = "LEFT"
         THEN heel_lifted(f.l_heel_y, f.l_toe_y)
         ELSE heel_lifted(f.r_heel_y, f.r_toe_y)
    ELSE heel_lifted(f.l_heel_y, f.l_toe_y) \/ heel_lifted(f.r_heel_y, f.r_toe_y)

lean_detected(f) == current_torso_angle(f) < back_angle_threshold

\* the locals analyze computes from the landmarks (lines 122-272)
measure(f) ==
    [view |-> view(f), active_side |-> active_side(f),
     current_knee_angle |-> current_knee_angle(f),
     current_torso_angle |-> current_torso_angle(f),
     symmetry_diff |-> symmetry_diff(f),
     valgus_detected |-> valgus_detected(f),
     lean_detected |-> lean_detected(f),
     knee_over_toes |-> knee_over_toes(f),
     heel_lift_detected |-> heel_lift_detected(f)]

\* mutant of feed_override: the heel warning is tested first
feed_override_heel_first(m) ==
    IF m.heel_lift_detected THEN "Keep Heels Down!"
    ELSE IF m.knee_over_toes THEN "Knees over toes!"
    ELSE ""

\* feed_override: None is the empty string
feed_override(m) ==
    IF m.knee_over_toes THEN "Knees over toes!"
    ELSE IF m.heel_lift_detected THEN "Keep Heels Down!"
    ELSE ""

(***************************************************************************)
(* 3. Update State Metrics (lines 230-272).  Incrementing the attribute    *)
(* knee_over_toes_flags before it exists raises AttributeError; what was   *)
(* assigned before that line stays assigned.                               *)
(***************************************************************************)
raises(s, m) == m.knee_over_toes /\ ~s.has_knee_over_toes_flags

metrics_before_raise(s, m) ==
    [s EXCEPT !.min_knee_angle = Min(@, m.current_knee_angle),
              !.knee_valgus_flags = IF m.valgus_detected THEN @ + 1 ELSE @,
              !.back_angle_flags = IF m.lean_detected THEN @ + 1 ELSE @]

update_metrics(s, m) ==
    [metrics_before_raise(s, m) EXCEPT
        !.knee_over_toes_flags = IF m.knee_over_toes THEN @ + 1 ELSE @,
        !.heel_lift_flags = IF m.heel_lift_detected THEN @ + 1 ELSE @]

(***************************************************************************)
(* 4. State Machine (lines 284-342); t is current_time.                    *)
(***************************************************************************)
\* mutant of debounced: the commit comes one frame early
debounced_inclusive(s) == s.state_counter + 1 >= state_transition_threshold

debounced(s) == s.state_counter + 1 > state_transition_threshold

standing_step(s, angle, t) ==
    IF angle < descend_threshold
    THEN IF debounced(s)
         THEN [reset_rep_stats([s EXCEPT !.state = "DESCENDING"], t) EXCEPT
                  !.rep_start_time = t,
                  !.feedback = Msg("Descending..."),
                  !.state_counter = 0]
         ELSE [s EXCEPT !.state_counter = @ + 1]
    ELSE [s EXCEPT !.state_counter = 0]

\* mutant of descending_step: the deep threshold itself counts as deep
descending_step_inclusive(s, angle, t) ==
    IF angle <= deep_threshold
    THEN IF debounced(s)
         THEN [s EXCEPT !.state = "BOTTOM",
                        !.bottom_start_time = t,
                        !.descent_duration = t - s.rep_start_time,
                        !.feedback = Msg("Hold bottom..."),
                        !.state_counter = 0]
         ELSE [s EXCEPT !.state_counter = @ + 1]
    ELSE IF angle > descend_threshold
    THEN [s EXCEPT !.state = "STANDING",
                   !.feedback = Msg("Aborted: Go Deeper!"),
                   !.state_counter = 0]
    ELSE [s EXCEPT !.state_counter = 0]

\* mutant of descending_step: the abort branch is missing
descending_step_no_abort(s, angle, t) ==
    IF angle < deep_threshold
    THEN IF debounced(s)
         THEN [s EXCEPT !.state = "BOTTOM",
                        !.bottom_start_time = t,
                        !.descent_duration = t - s.rep_start_time,
                        !.feedback = Msg("Hold bottom..."),
                        !.state_counter = 0]
         ELSE [s EXCEPT !.state_counter = @ + 1]
    ELSE [s EXCEPT !.state_counter = 0]

descending_step(s, angle, t) ==
    IF angle < deep_threshold
    THEN IF debounced(s)
         THEN [s EXCEPT !.state = "BOTTOM",
                        !.bottom_start_time = t,
                        !.descent_duration = t - s.rep_start_time,
                        !.feedback = Msg("Hold bottom..."),
                        !.state_counter = 0]
         ELSE [s EXCEPT !.state_counter = @ + 1]
    ELSE IF angle > descend_threshold
    THEN [s EXCEPT !.state = "STANDING",
                   !.feedback = Msg("Aborted: Go Deeper!"),
                   !.state_counter = 0]
    ELSE [s EXCEPT !.state_counter = 0]

\* mutant of bottom_step: the abort of DESCENDING is repeated in BOTTOM
bottom_step_aborts(s, angle, t) ==
    IF angle > descend_threshold
    THEN [s EXCEPT !.state = "STANDING",
                   !.feedback = Msg("Aborted: Go Deeper!"),
                   !.state_counter = 0]
    ELSE [s EXCEPT !.state_counter = 0]

bottom_step(s, angle, t) ==
    IF angle > deep_threshold + bottom_margin
    THEN IF debounced(s)
         THEN [s EXCEPT !.state = "ASCENDING",
                        !.bottom_duration = t - s.bottom_start_time,
                        !.feedback = Msg("Push up!"),
                        !.state_counter = 0]
         ELSE [s EXCEPT !.state_counter = @ + 1]
    ELSE [s EXCEPT !.state_counter = 0]

\* mutant of is_valid_rep: no minimum duration
is_valid_rep_any(rep_total_time) == rep_total_time >= 0

\* rep_total_time > 1.0
is_valid_rep(rep_total_time) == rep_total_time > min_rep_time

\* lines 329-340: the commit of ASCENDING -> STANDING
finish_rep(s, t, sym, tip) ==
    LET ascent == t - (s.bottom_start_time + s.bottom_duration)
        rep_total_time == s.descent_duration + s.bottom_duration + ascent
    IN  IF is_valid_rep(rep_total_time)
        THEN [score_rep([s EXCEPT !.state = "STANDING", !.ascent_duration = ascent,
                                  !.rep_count = @ + 1], sym, tip)
                 EXCEPT !.state_counter = 0]
        ELSE [s EXCEPT !.state = "STANDING", !.ascent_duration = ascent,
                       !.feedback = Msg("Rep too fast (ignored)"),
                       !.state_counter = 0]

\* mutant of ascending_step: only a fully straight knee counts as standing
ascending_step_straight(s, angle, t, sym, tip) ==
    IF angle > stand_threshold + 20
    THEN IF debounced(s)
         THEN finish_rep(s, t, sym, tip)
         ELSE [s EXCEPT !.state_counter = @ + 1]
    ELSE [s EXCEPT !.state_counter = 0]

ascending_step(s, angle, t, sym, tip) ==
    IF angle > stand_threshold
    THEN IF debounced(s)
         THEN finish_rep(s, t, sym, tip)
         ELSE [s EXCEPT !.state_counter = @ + 1]
    ELSE [s EXCEPT !.state_counter = 0]

state_machine(s, angle, t, sym, tip) ==
    CASE s.state = "STANDING" -> standing_step(s, angle, t)
      [] s.state = "DESCENDING" -> descending_step(s, angle, t)
      [] s.state = "BOTTOM" -> bottom_step(s, angle, t)
      [] s.state = "ASCENDING" -> ascending_step(s, angle, t, sym, tip)

\* lines 344-346
apply_override(s, m) ==
    IF feed_override(m) # "" /\ s.state \in {"DESCENDING", "BOTTOM"}
    THEN [s EXCEPT !.feedback = Msg(feed_override(m))]
    ELSE s

(***************************************************************************)
(* The records analyze returns.                                            *)
(***************************************************************************)
no_person_record(s) ==
    [state |-> s.state, rep_count |-> s.rep_count,
     l_knee_angle |-> 0, r_knee_angle |-> 0, torso_angle |-> 0,
     feedback |-> Msg("No person detected"),
     last_rep_score |-> 0, last_rep_quality |-> EmptyDict,
     valgus_detected |-> FALSE, view |-> "UNKNOWN"]

show_full_body_record(s) ==
    [state |-> s.state, rep_count |-> s.rep_count,
     l_knee_angle |-> 0, r_knee_angle |-> 0, torso_angle |-> 0,
     feedback |-> Msg("Show Full Body!"),
     last_rep_score |-> Get(s.current_rep_quality, "score", 0),
     last_rep_quality |-> s.current_rep_quality,
     valgus_detected |-> FALSE, view |-> "UNKNOWN"]

analysis_record(s, f, m) ==
    [state |-> s.state, rep_count |-> s.rep_count,
     l_knee_angle |-> f.l_knee_angle, r_knee_angle |-> f.r_knee_angle,
     torso_angle |-> m.current_torso_angle,
     feedback |-> s.feedback,
     last_rep_score |-> Get(s.current_rep_quality, "score", 0),
     last_rep_quality |-> s.current_rep_quality,
     valgus_detected |-> m.valgus_detected, view |-> m.view,
     knee_over_toes |-> m.knee_over_toes,
     correct_reps |-> s.correct_reps, incorrect_reps |-> s.incorrect_reps,
     advice |-> s.advice]

AttributeError == [exception |-> "AttributeError"]

\* a call that ends in `return`
is_record(r) == "exception" \notin DOMAIN r

(***************************************************************************)
(* analyze(landmarks, frame_width, frame_height) on analyzer s: f is the   *)
(* frame, m the locals computed from it, t the value time.time() returns   *)
(* during the call.  The value is the analyzer after the call and what the *)
(* call returned.                                                          *)
(***************************************************************************)
after_frame(s, m, t, tip) ==
    apply_override(
        state_machine(update_metrics(s, m), m.current_knee_angle, t,
                      m.symmetry_diff, tip), m)

returned(s, f, m) == [self |-> s, ret |-> analysis_record(s, f, m)]

analyze(s, f, m, t, tip) ==
    IF ~f.landmarks
    THEN [self |-> s, ret |-> no_person_record(s)]
    ELSE IF ~(is_left_visible(f) \/ is_right_visible(f))
    THEN [self |-> s, ret |-> show_full_body_record(s)]
    ELSE IF raises(s, m)
    THEN [self |-> metrics_before_raise(s, m), ret |-> AttributeError]
    ELSE returned(after_frame(s, m, t, tip), f, m)

(***************************************************************************)
(* The frames delivered to analyze.                                        *)
(***************************************************************************)
\* a subject facing the camera, upright, with no fault; every measurement
\* sits on the harmless side of its threshold
BaseFrame ==
    [landmarks |-> TRUE, l_visibility |-> 51, r_visibility |-> 51,
     l_shoulder_x |-> 340, r_shoulder_x |-> 300,
     l_shoulder_y |-> 100, r_shoulder_y |-> 100, l_hip_y |-> 200, r_hip_y |-> 200,
     l_z |-> -1, r_z |-> 0,
     l_knee_angle |-> 170, r_knee_angle |-> 170,
     l_torso_angle |-> 38, r_torso_angle |-> 38,
     l_knee_x |-> 363, r_knee_x |-> 300, l_ankle_x |-> 400, r_ankle_x |-> 300,
     l_toe_x |-> 200, r_toe_x |-> 300,
     l_toe_y |-> 500, r_toe_y |-> 500, l_heel_y |-> 425, r_heel_y |-> 425]

NoLandmarks == [BaseFrame EXCEPT !.landmarks = FALSE]
Hidden == [BaseFrame EXCEPT !.l_visibility = 50, !.r_visibility = 50]

KneeAngles == {70, 98, 108, 130, 140, 160, 170}
FaultAngles == {130, 170}

FrontFrame(l, r, lean, valgus, heel) ==
    [BaseFrame EXCEPT
        !.l_knee_angle = l, !.r_knee_angle = r,
        !.l_torso_angle = IF lean THEN 37 ELSE 38,
        !.r_torso_angle = IF lean THEN 37 ELSE 38,
        !.l_knee_x = IF valgus THEN 362 ELSE 363,
        !.r_heel_y = IF heel THEN 424 ELSE 425]

\* the left side towards the camera, facing left; the right leg straight
SideFrame(a, lean, kot, heel) ==
    [BaseFrame EXCEPT
        !.l_shoulder_x = 339,
        !.l_knee_angle = a, !.r_knee_angle = 180,
        !.l_torso_angle = IF lean THEN 37 ELSE 38,
        !.l_ankle_x = 300,
        !.l_knee_x = IF kot THEN 114 ELSE 115,
        !.l_heel_y = IF heel THEN 424 ELSE 425]

\* <<lean, valgus, heel>> and <<lean, knee over toes, heel>>
FrontFaults == {<<TRUE, FALSE, FALSE>>, <<FALSE, TRUE, FALSE>>, <<FALSE, FALSE, TRUE>>}
SideFaults == {<<FALSE, TRUE, FALSE>>, <<FALSE, FALSE, TRUE>>}

Frames ==
    {NoLandmarks, Hidden}
    \cup {FrontFrame(a, a, FALSE, FALSE, FALSE) : a \in KneeAngles}
    \cup {FrontFrame(180, 160, FALSE, FALSE, FALSE)}
    \cup {SideFrame(a, FALSE, FALSE, FALSE) : a \in FaultAngles}
    \cup {FrontFrame(a, a, p[1], p[2], p[3]) : a \in FaultAngles, p \in FrontFaults}
    \cup {SideFrame(a, p[1], p[2], p[3]) : a \in FaultAngles, p \in SideFaults}
    \cup {SideFrame(130, FALSE, TRUE, TRUE)}

is_degraded(f) == ~f.landmarks \/ ~(is_left_visible(f) \/ is_right_visible(f))

shows_fault(f, m) ==
    ~is_degraded(f) /\
    (m.valgus_detected \/ m.lean_detected \/ m.knee_over_toes \/ m.heel_lift_detected)

flags_total(s) ==
    s.knee_valgus_flags + s.back_angle_flags + s.heel_lift_flags + s.knee_over_toes_flags

(***************************************************************************)
(* The state machine of the model.                                         *)
(***************************************************************************)
SetSelf(s) ==
    /\ state' = s.state
    /\ rep_count' = s.rep_count
    /\ correct_reps' = s.correct_reps
    /\ incorrect_reps' = s.incorrect_reps
    /\ current_rep_quality' = s.current_rep_quality
    /\ feedback' = s.feedback
    /\ advice' = s.advice
    /\ state_counter' = s.state_counter
    /\ min_knee_angle' = s.min_knee_angle
    /\ rep_start_time' = s.rep_start_time
    /\ descent_duration' = s.descent_duration
    /\ ascent_duration' = s.ascent_duration
    /\ bottom_start_time' = s.bottom_start_time
    /\ bottom_duration' = s.bottom_duration
    /\ knee_valgus_flags' = s.knee_valgus_flags
    /\ back_angle_flags' = s.back_angle_flags
    /\ heel_lift_flags' = s.heel_lift_flags
    /\ knee_over_toes_flags' = s.knee_over_toes_flags
    /\ has_knee_over_toes_flags' = s.has_knee_over_toes_flags

\* the analyzer is s
IsSelf(s) ==
    /\ state = s.state
    /\ rep_count = s.rep_count
    /\ correct_reps = s.correct_reps
    /\ incorrect_reps = s.incorrect_reps
    /\ current_rep_quality = s.current_rep_quality
    /\ feedback = s.feedback
    /\ advice = s.advice
    /\ state_counter = s.state_counter
    /\ min_knee_angle = s.min_knee_angle
    /\ rep_start_time = s.rep_start_time
    /\ descent_duration = s.descent_duration
    /\ ascent_duration = s.ascent_duration
    /\ bottom_start_time = s.bottom_start_time
    /\ bottom_duration = s.bottom_duration
    /\ knee_valgus_flags = s.knee_valgus_flags
    /\ back_angle_flags = s.back_angle_flags
    /\ heel_lift_flags = s.heel_lift_flags
    /\ knee_over_toes_flags = s.knee_over_toes_flags
    /\ has_knee_over_toes_flags = s.has_knee_over_toes_flags

\* no call yet
NoCall ==
    /\ now = 0
    /\ frame = NoLandmarks
    /\ result = EmptyDict

NoneSeen == [valgus |-> 0, knee_over_toes |-> 0, heel_lift |-> 0, lean |-> 0]

NoStandingRun == [on |-> FALSE, phase |-> "STANDING", reps |-> 0, frames |-> 0]

NoHist ==
    /\ run_phase = "STANDING" /\ streak = 0 /\ run_counted = 0 /\ seen = NoneSeen
    /\ standing_run = NoStandingRun

NoAux == twin = EmptyDict /\ points = EmptyDict /\ angles = EmptyDict /\ NoHist

Init ==
    /\ IsSelf(NewAnalyzer)
    /\ NoCall
    /\ NoAux
    /\ dip = 0
    /\ plateau = 0
    /\ held = 0
    /\ seq_t1 = 0
    /\ seq_t2 = 0
    /\ visited = <<>>

\* random.choice is reached only by a rep that is scored
Tips == IF state = "ASCENDING" /\ debounced(Self) THEN pro_tips ELSE {""}

\* one call of analyze on frame f, dt seconds after the previous call
Call(f, dt, tip) ==
    /\ now + dt <= MaxTime
    /\ \E s \in {Self}, m \in {measure(f)} :
          /\ shows_fault(f, m) => flags_total(s) < MaxFlags
          /\ \E out \in {analyze(s, f, m, now + dt, tip)} :
                /\ now' = now + dt
                /\ frame' = f
                /\ result' = out.ret
                /\ SetSelf(out.self)

\* history: the run of frames below the descend threshold seen in STANDING;
\* a frame without a body has no knee angle and is not part of the run
DipAfter(f) ==
    IF is_degraded(f) THEN dip
    ELSE IF state = "STANDING" /\ current_knee_angle(f) < descend_threshold
    THEN Min(dip + 1, state_transition_threshold + 1)
    ELSE 0

Analyze ==
    \E f \in Frames, dt \in {0, 1} : \E tip \in Tips :
        /\ Call(f, dt, tip)
        /\ dip' = DipAfter(f)
        /\ UNCHANGED <<plateau, held, seq_t1, seq_t2, visited>>
        /\ UNCHANGED aux

Next == Analyze

Spec == Init /\ [][Next]_vars

(***************************************************************************)
(* SpecSeq: a fresh analyzer fed the scripted knee-angle sequence          *)
(* 170, 130, 70, 130, 170, each angle on at least HoldMin frames in a row. *)
(***************************************************************************)
PlateauAngles == <<170, 130, 70, 130, 170>>
HoldMin == state_transition_threshold + 1
\* a plateau is held for at most MaxHold frames
MaxHold == 6

PlateauFrames(p) ==
    {f \in Frames : ~is_degraded(f) /\ current_knee_angle(f) = PlateauAngles[p]}

InitSeq ==
    /\ IsSelf(NewAnalyzer)
    /\ NoCall
    /\ NoAux
    /\ dip = 0
    /\ plateau = 1
    /\ held = 0
    /\ seq_t1 = 0
    /\ seq_t2 = 0
    /\ visited = <<"STANDING">>

\* the frame is number h of plateau p
SeqStep(p, h) ==
    \E f \in PlateauFrames(p), dt \in {0, 1} : \E tip \in Tips :
        /\ Call(f, dt, tip)
        /\ dip' = DipAfter(f)
        /\ plateau' = p
        /\ held' = h
        /\ seq_t1' = IF p = 2 /\ h = HoldMin THEN now' ELSE seq_t1
        /\ seq_t2' = IF p = Len(PlateauAngles) /\ h = HoldMin THEN now' ELSE seq_t2
        /\ visited' = IF state' # state THEN Append(visited, state') ELSE visited
        /\ UNCHANGED aux

SeqHold == held < MaxHold /\ SeqStep(plateau, held + 1)

SeqAdvance == plateau < Len(PlateauAngles) /\ held >= HoldMin /\ SeqStep(plateau + 1, 1)

NextSeq == SeqHold \/ SeqAdvance

SpecSeq == InitSeq /\ [][NextSeq]_vars

(***************************************************************************)
(* SpecScore: _score_rep applied, as analyze applies it (lines 335-336),   *)
(* to every combination of accumulators around its thresholds.             *)
(***************************************************************************)
DepthCases == {97, 105, 106, 115, 116}
DescentCases == {0, 1}
ValgusCases == {5, 6, 30, 31}
KneeOverToesCases == {5, 6, 45, 46}
HeelLiftCases == {5, 6, 30, 31}
BackAngleCases == {5, 6, 45, 46}
SymmetryCases == {0, 10, 11}

InitScore ==
    /\ \E d \in DepthCases, t \in DescentCases, v \in ValgusCases,
          k \in KneeOverToesCases, h \in HeelLiftCases, b \in BackAngleCases :
          IsSelf([NewAnalyzer EXCEPT
                    !.state = "STANDING", !.min_knee_angle = d,
                    !.descent_duration = t, !.knee_valgus_flags = v,
                    !.knee_over_toes_flags = k, !.has_knee_over_toes_flags = TRUE,
                    !.heel_lift_flags = h, !.back_angle_flags = b])
    /\ NoCall
    /\ NoAux
    /\ dip = 0
    /\ plateau = 0
    /\ held = 0
    /\ seq_t1 = 0
    /\ seq_t2 = 0
    /\ visited = <<>>

ScoreRep ==
    /\ rep_count = 0
    /\ \E sym \in SymmetryCases, tip \in pro_tips : \E s \in {Self} :
          SetSelf(score_rep([s EXCEPT !.rep_count = @ + 1], sym, tip))
    /\ UNCHANGED <<now, frame, result, dip, plateau, held, seq_t1, seq_t2, visited>>
    /\ UNCHANGED aux

NextScore == ScoreRep

SpecScore == InitScore /\ [][NextScore]_vars

(***************************************************************************)
(* SpecDebounce: frames with and without a body, fault-free, with the     *)
(* knee past the toe, or with lean, valgus and heel lift at once, and the  *)
(* runs of qualifying frames they form.                                    *)
(***************************************************************************)
\* the condition that advances the debounce counter in a phase
qualifies(phase, angle) ==
    CASE phase = "STANDING" -> angle < descend_threshold
      [] phase = "DESCENDING" -> angle < deep_threshold
      [] phase = "BOTTOM" -> angle > deep_threshold + bottom_margin
      [] phase = "ASCENDING" -> angle > stand_threshold

DebounceFrames ==
    {NoLandmarks, Hidden}
    \cup {FrontFrame(a, a, FALSE, FALSE, FALSE) : a \in KneeAngles}
    \cup {SideFrame(a, FALSE, TRUE, FALSE) : a \in FaultAngles}
    \cup {FrontFrame(130, 130, TRUE, TRUE, TRUE)}

\* the run carried into this call: a run belongs to one stay in one phase
RunBefore(n) == IF state = run_phase THEN n ELSE 0

DebounceCall ==
    \E f \in DebounceFrames, dt \in {0, 1} : \E tip \in Tips :
        /\ Call(f, dt, tip)
        /\ dip' = DipAfter(f)
        /\ run_phase' = state
        /\ LET held_now == ~is_degraded(f) /\ qualifies(state, current_knee_angle(f))
               ran == ~is_degraded(f) /\ is_record(result')
           IN  /\ streak' = IF held_now
                            THEN Min(RunBefore(streak) + 1, state_transition_threshold + 1)
                            ELSE 0
               /\ run_counted' = IF ~ran THEN RunBefore(run_counted)
                             ELSE IF held_now
                             THEN Min(RunBefore(run_counted) + 1, state_transition_threshold + 1)
                             ELSE 0
        /\ UNCHANGED <<plateau, held, seq_t1, seq_t2, visited, twin, points, angles, seen, standing_run>>

NextDebounce == DebounceCall

SpecDebounce == Init /\ [][NextDebounce]_vars

(***************************************************************************)
(* SpecOverride: squats in which single frames show a per-frame fault, one *)
(* fault at a time and knee-over-toe together with a heel lift.            *)
(***************************************************************************)
OverrideFrames ==
    {FrontFrame(a, a, FALSE, FALSE, FALSE) : a \in {70, 130, 170}}
    \cup {FrontFrame(130, 130, TRUE, FALSE, FALSE), FrontFrame(130, 130, FALSE, TRUE, FALSE),
          FrontFrame(130, 130, FALSE, FALSE, TRUE)}
    \cup {SideFrame(130, FALSE, TRUE, FALSE), SideFrame(130, FALSE, TRUE, TRUE)}

\* the frames showing each fault, counted from the frame after the one that
\* commits DESCENDING to the frame that leaves ASCENDING
SeenAfter(f, phase, after) ==
    LET one(b) == IF b THEN 1 ELSE 0
    IN  IF phase = "STANDING"
        THEN IF after = "DESCENDING" THEN NoneSeen ELSE seen
        ELSE [valgus |-> seen.valgus + one(valgus_detected(f)),
              knee_over_toes |-> seen.knee_over_toes + one(knee_over_toes(f)),
              heel_lift |-> seen.heel_lift + one(heel_lift_detected(f)),
              lean |-> seen.lean + one(lean_detected(f))]

OverrideCall ==
    \E f \in OverrideFrames, dt \in {0, 1} : \E tip \in Tips :
        /\ Call(f, dt, tip)
        /\ dip' = DipAfter(f)
        /\ run_phase' = state
        /\ seen' = SeenAfter(f, state, state')
        /\ UNCHANGED <<plateau, held, seq_t1, seq_t2, visited, twin, points, angles,
                       streak, run_counted, standing_run>>

NextOverride == OverrideCall

SpecOverride == Init /\ [][NextOverride]_vars

(***************************************************************************)
(* SpecView: squats seen with shoulders 39 or 40 pixels apart and a torso  *)
(* 0, 100 or 100.5 pixels high, so that the ratio falls on both sides of   *)
(* 0.4 and on it.                                                          *)
(***************************************************************************)
ViewFrames ==
    {[SideFrame(a, FALSE, FALSE, FALSE) EXCEPT !.l_shoulder_x = x, !.l_hip_y = y] :
        a \in {70, 130, 170}, x \in {339, 340}, y \in {0, 200, 201}}

ViewCall ==
    \E f \in ViewFrames, dt \in {0, 1} : \E tip \in Tips :
        /\ Call(f, dt, tip)
        /\ dip' = DipAfter(f)
        /\ run_phase' = state
        /\ UNCHANGED <<plateau, held, seq_t1, seq_t2, visited, twin, points, angles,
                       streak, run_counted, seen, standing_run>>

NextView == ViewCall

SpecView == Init /\ [][NextView]_vars

(***************************************************************************)
(* SpecStand: squats, and from some frame on only frames that show a body  *)
(* with the knee angle above the stand threshold.  The video loop calls    *)
(* analyze on every frame it reads, so once the upright frames have begun  *)
(* the next call always comes: weak fairness on the count of those calls.  *)
(***************************************************************************)
SquatFrames == {FrontFrame(a, a, FALSE, FALSE, FALSE) : a \in {70, 130, 170}}

\* upright frames: plain, uneven, showing three faults, and a side view with
\* the knee past the toe
StandFrames ==
    {FrontFrame(170, 170, FALSE, FALSE, FALSE), FrontFrame(180, 160, FALSE, FALSE, FALSE),
     FrontFrame(170, 170, TRUE, TRUE, TRUE), SideFrame(170, FALSE, TRUE, FALSE)}

\* the frames counted in standing_run go up to two debounce windows and one
MaxStandFrames == 2 * (state_transition_threshold + 1) + 1

SquatCall ==
    /\ ~standing_run.on
    /\ \E f \in SquatFrames, dt \in {0, 1} : \E tip \in Tips :
          /\ Call(f, dt, tip)
          /\ dip' = DipAfter(f)
          /\ run_phase' = state
    /\ UNCHANGED <<plateau, held, seq_t1, seq_t2, visited, twin, points, angles,
                   streak, run_counted, seen, standing_run>>

StandStart ==
    /\ ~standing_run.on
    /\ standing_run' = [on |-> TRUE, phase |-> state, reps |-> rep_count, frames |-> 0]
    /\ UNCHANGED <<avars, now, frame, result, dip, plateau, held, seq_t1, seq_t2, visited,
                   twin, points, angles, run_phase, streak, run_counted, seen>>

StandCall ==
    /\ standing_run.on
    /\ \E f \in StandFrames, dt \in {0, 1} : \E tip \in Tips :
          /\ Call(f, dt, tip)
          /\ dip' = DipAfter(f)
          /\ run_phase' = state
    /\ standing_run' = [standing_run EXCEPT !.frames = Min(@ + 1, MaxStandFrames)]
    /\ UNCHANGED <<plateau, held, seq_t1, seq_t2, visited, twin, points, angles,
                   streak, run_counted, seen>>

NextStand == SquatCall \/ StandStart \/ StandCall

\* what a StandCall step does to standing_run while the count is below its
\* cap; StandCall is enabled whenever standing_run.on (a plain frame with
\* dt = 0 passes the guards of Call), and no other action of NextStand
\* changes the count
StandFrameCounted ==
    /\ standing_run.on
    /\ standing_run.frames < MaxStandFrames
    /\ standing_run' = [standing_run EXCEPT !.frames = @ + 1]

SpecStand == Init /\ [][NextStand]_vars /\ WF_standing_run(StandFrameCounted)

(***************************************************************************)
(* SpecTwin: the same completed rep scored by two analyzers holding the    *)
(* same accumulators; each call of _score_rep draws its own random.choice. *)
(***************************************************************************)
ScoreTwins ==
    /\ rep_count = 0
    /\ twin = EmptyDict
    /\ \E sym \in SymmetryCases, tip1 \in pro_tips, tip2 \in pro_tips :
          \E s \in {[Self EXCEPT !.rep_count = @ + 1]} :
             /\ SetSelf(score_rep(s, sym, tip1))
             /\ twin' = score_rep(s, sym, tip2)
    /\ UNCHANGED <<points, angles>>
    /\ UNCHANGED hist
    /\ UNCHANGED <<now, frame, result, dip, plateau, held, seq_t1, seq_t2, visited>>

NextTwin == ScoreTwins

SpecTwin == InitScore /\ [][NextTwin]_vars

(***************************************************************************)
(* SpecAngle: calculate_angle (src/utils.py) on pixel coordinates.  Angles *)
(* are in thousandths of a degree; a point is <<x, y>>.                    *)
(***************************************************************************)
\* pixel coordinates run from 0 to MaxPixel
MaxPixel == 2
half_turn == 180000
full_turn == 360000

\* np.arctan2(y, x) * 180.0 / np.pi, to the nearest thousandth of a degree
arctan2(y, x) ==
    LET v == <<y, x>> IN
    CASE v = <<-3, -3>> -> -135000
      [] v = <<-3, -2>> -> -123690
      [] v = <<-3, -1>> -> -108435
      [] v = <<-3, 0>> -> -90000
      [] v = <<-3, 1>> -> -71565
      [] v = <<-3, 2>> -> -56310
      [] v = <<-3, 3>> -> -45000
      [] v = <<-2, -3>> -> -146310
      [] v = <<-2, -2>> -> -135000
      [] v = <<-2, -1>> -> -116565
      [] v = <<-2, 0>> -> -90000
      [] v = <<-2, 1>> -> -63435
      [] v = <<-2, 2>> -> -45000
      [] v = <<-2, 3>> -> -33690
      [] v = <<-1, -3>> -> -161565
      [] v = <<-1, -2>> -> -153435
      [] v = <<-1, -1>> -> -135000
      [] v = <<-1, 0>> -> -90000
      [] v = <<-1, 1>> -> -45000
      [] v = <<-1, 2>> -> -26565
      [] v = <<-1, 3>> -> -18435
      [] v = <<0, -3>> -> 180000
      [] v = <<0, -2>> -> 180000
      [] v = <<0, -1>> -> 180000
      [] v = <<0, 0>> -> 0
      [] v = <<0, 1>> -> 0
      [] v = <<0, 2>> -> 0
      [] v = <<0, 3>> -> 0
      [] v = <<1, -3>> -> 161565
      [] v = <<1, -2>> -> 153435
      [] v = <<1, -1>> -> 135000
      [] v = <<1, 0>> -> 90000
      [] v = <<1, 1>> -> 45000
      [] v = <<1, 2>> -> 26565
      [] v = <<1, 3>> -> 18435
      [] v = <<2, -3>> -> 146310
      [] v = <<2, -2>> -> 135000
      [] v = <<2, -1>> -> 116565
      [] v = <<2, 0>> -> 90000
      [] v = <<2, 1>> -> 63435
      [] v = <<2, 2>> -> 45000
      [] v = <<2, 3>> -> 33690
      [] v = <<3, -3>> -> 135000
      [] v = <<3, -2>> -> 123690
      [] v = <<3, -1>> -> 108435
      [] v = <<3, 0>> -> 90000
      [] v = <<3, 1>> -> 71565
      [] v = <<3, 2>> -> 56310
      [] v = <<3, 3>> -> 45000

\* mutant of calculate_angle: the sign of the difference is kept
calculate_angle_signed(a, b, c) ==
    LET degrees == arctan2(c[2] - b[2], c[1] - b[1]) - arctan2(a[2] - b[2], a[1] - b[1])
    IN  IF degrees > half_turn THEN full_turn - degrees ELSE degrees

calculate_angle(a, b, c) ==
    LET degrees == arctan2(c[2] - b[2], c[1] - b[1]) - arctan2(a[2] - b[2], a[1] - b[1])
        angle == Abs(degrees)
    IN  IF angle > half_turn THEN full_turn - angle ELSE angle

Pixels == (0..MaxPixel) \X (0..MaxPixel)
Translations == {<<0, 0>>, <<1, 0>>, <<-3, 5>>, <<640, 480>>}
Moved(p, d) == <<p[1] + d[1], p[2] + d[2]>>

InitAngle ==
    /\ IsSelf(NewAnalyzer)
    /\ NoCall
    /\ dip = 0
    /\ plateau = 0
    /\ held = 0
    /\ seq_t1 = 0
    /\ seq_t2 = 0
    /\ visited = <<>>
    /\ twin = EmptyDict
    /\ angles = EmptyDict
    /\ NoHist
    /\ \E a \in Pixels, b \in Pixels, c \in Pixels, d \in Translations :
          points = [a |-> a, b |-> b, c |-> c, d |-> d]

CalculateAngle ==
    /\ angles = EmptyDict
    /\ angles' = [abc |-> calculate_angle(points.a, points.b, points.c),
                  cba |-> calculate_angle(points.c, points.b, points.a),
                  moved |-> calculate_angle(Moved(points.a, points.d),
                                            Moved(points.b, points.d),
                                            Moved(points.c, points.d))]
    /\ UNCHANGED <<avars, now, frame, result, dip, plateau, held, seq_t1, seq_t2,
                   visited, twin, points>>
    /\ UNCHANGED hist

NextAngle == CalculateAngle

SpecAngle == InitAngle /\ [][NextAngle]_vars

(***************************************************************************)
(* Properties.                                                             *)
(***************************************************************************)
Range(seq) == {seq[i] : i \in DOMAIN seq}

\* the last call returned a record
Returned == "view" \in DOMAIN result

\* a frame with no landmarks, or with neither side fully visible
Degraded(f) == ~f.landmarks \/ (f.l_visibility <= 50 /\ f.r_visibility <= 50)

KneeWidth(f) == Abs(f.l_knee_x - f.r_knee_x)
AnkleWidth(f) == Abs(f.l_ankle_x - f.r_ankle_x)

\* C1: after every call of analyze, in every reachable state,
\* rep_count = correct_reps + incorrect_reps.
C1_RepCountIsSum == rep_count = correct_reps + incorrect_reps

C1_Witness == Returned /\ rep_count = 1 /\ correct_reps = 1 /\ state = "STANDING"

\* C2: a call of analyze on a degraded frame (no landmarks, or neither side
\* fully visible) changes no attribute of the analyzer and returns view UNKNOWN.
C2_DegradedFrameMutatesNothing ==
    [][Degraded(frame') =>
          (UNCHANGED avars /\ Get(result', "view", "") = "UNKNOWN")]_vars

C2_Witness ==
    /\ frame = Hidden
    /\ Get(result, "view", "") = "UNKNOWN"
    /\ state = "BOTTOM" /\ state_counter = 2 /\ min_knee_angle = 70

\* C3: from STANDING, knee angles below the descend threshold on at most 4
\* frames in a row never leave STANDING, and the frame that returns to or above
\* the threshold leaves the analyzer in STANDING with the debounce counter at 0
\* and the rep accumulators not reset.
C3_Step ==
    /\ (state = "STANDING" /\ state' # "STANDING") => dip' > state_transition_threshold
    /\ (state = "STANDING" /\ ~Degraded(frame')
            /\ current_knee_angle(frame') >= descend_threshold)
       => /\ state' = "STANDING"
          /\ state_counter' = 0
          /\ rep_start_time' = rep_start_time
          /\ min_knee_angle' <= min_knee_angle
          /\ current_rep_quality' = current_rep_quality

C3_NoiseRejected == [][C3_Step]_vars

\* C4: a fresh analyzer fed 170, 130, 70, 130, 170, each on at least 5 frames,
\* with more than the minimum rep duration between the frame that completes the
\* descent debounce and the frame that completes the stand debounce, goes
\* through STANDING, DESCENDING, BOTTOM, ASCENDING, STANDING and ends with
\* rep_count = 1.
C4_OneRep ==
    (plateau = Len(PlateauAngles) /\ held >= HoldMin /\ seq_t2 - seq_t1 > min_rep_time)
    => /\ rep_count = 1
       /\ visited = <<"STANDING", "DESCENDING", "BOTTOM", "ASCENDING", "STANDING">>

\* C5: every call of analyze on a frame of the documented shape returns a
\* record; it never fails on an accumulator that is not defined.
C5_AnalyzeReturnsRecord == "exception" \notin DOMAIN result

\* C6 as stated: a scored rep whose minimum knee angle is not below 115 has
\* the "Too shallow" deduction and is run_counted in incorrect_reps.
C6_TooShallowIncorrect ==
    /\ "Too shallow" \in Range(current_rep_quality.comments)
    /\ incorrect_reps = 1
    /\ correct_reps = 0

C7_LastResultOnlyOnCompletion ==
    [][(current_rep_quality' # current_rep_quality \/ advice' # advice)
         => (state = "ASCENDING" /\ state' = "STANDING" /\ rep_count' = rep_count + 1)]_vars

\* C8: the record returned for a degraded frame carries the stored rep_count
\* and the stored last rep result (score and quality).
C8_DegradedCarriesPrior ==
    (Returned /\ Degraded(frame))
    => /\ result.rep_count = rep_count
       /\ result.last_rep_score = Get(current_rep_quality, "score", 0)
       /\ result.last_rep_quality = current_rep_quality

\* C9: every record analyze returns has the fields state, rep_count,
\* correct_reps, incorrect_reps, view, feedback and the last rep result, and a
\* degraded record lacks no field of a normal one.
NormalFields == DOMAIN analysis_record(NewAnalyzer, BaseFrame, measure(BaseFrame))

C9_SameFields ==
    Returned
    => /\ {"state", "rep_count", "correct_reps", "incorrect_reps", "view",
           "feedback", "last_rep_score", "last_rep_quality"} \subseteq DOMAIN result
       /\ NormalFields \subseteq DOMAIN result

\* C10: in FRONT view valgus is detected iff the knee width is strictly less
\* than 0.63 times the ankle width; 63 against 100 does not trigger and leaves
\* the valgus counter alone, 62 against 100 triggers and adds one to it (the
\* call that commits STANDING -> DESCENDING then resets the counter to 0).
C10_Step ==
    Get(result', "view", "") = "FRONT"
    => LET kw == KneeWidth(frame')
           aw == AnkleWidth(frame')
           strict == 100 * kw < 63 * aw
           reset == state = "STANDING" /\ state' = "DESCENDING"
       IN  /\ result'.valgus_detected = strict
           /\ (kw = 63 /\ aw = 100) => ~result'.valgus_detected
           /\ (kw = 62 /\ aw = 100) => result'.valgus_detected
           /\ knee_valgus_flags' =
                 IF reset THEN 0
                 ELSE IF strict THEN knee_valgus_flags + 1
                 ELSE knee_valgus_flags

C10_ValgusStrict == [][C10_Step]_vars

C10_Witness ==
    /\ Get(result, "view", "") = "FRONT"
    /\ KneeWidth(frame) = 62 /\ AnkleWidth(frame) = 100
    /\ result.valgus_detected
    /\ knee_valgus_flags = 1

NoFaultRecorded == current_rep_quality.comments = <<"Good Rep!">> /\ incorrect_reps = 0

C12_Deducted ==
    (IF min_knee_angle > 115 THEN 20 ELSE IF min_knee_angle > 105 THEN 10 ELSE 0)
    + (IF descent_duration < 1 THEN 10 ELSE 0)
    + (IF "Asymmetrical" \in Range(current_rep_quality.comments) THEN 10 ELSE 0)
    + (IF back_angle_flags > 5 THEN 10 ELSE 0)
    + (IF knee_valgus_flags > 5 THEN 15 ELSE 0)
    + (IF knee_over_toes_flags > 5 THEN 15 ELSE 0)
    + (IF heel_lift_flags > 5 THEN 15 ELSE 0)

C12_ScoreInRange ==
    rep_count = 1
    => /\ current_rep_quality.score \in 0..100
       /\ current_rep_quality.score = Max(0, 100 - C12_Deducted)

C12_Witness ==
    /\ rep_count = 1
    /\ C12_Deducted = 95
    /\ current_rep_quality.score = 5
    /\ Len(current_rep_quality.comments) = 7

\* C13: calculate_angle(a, b, c) = calculate_angle(c, b, a), the angle is
\* unchanged when a, b and c are moved by the same translation, and it lies
\* in [0, 180] degrees.
C13_AngleSymmetricTranslationInvariant ==
    angles # EmptyDict
    => /\ angles.abc = angles.cba
       /\ angles.abc = angles.moved
       /\ angles.abc >= 0 /\ angles.abc <= 180000

\* the two rays are more than half a turn apart before folding
C13_Witness ==
    /\ angles # EmptyDict
    /\ points.a = <<0, 0>> /\ points.b = <<1, 1>> /\ points.c = <<0, 2>>
    /\ points.d = <<-3, 5>>
    /\ angles.abc = 90000 /\ angles.cba = 90000 /\ angles.moved = 90000

DebouncedEdges ==
    {<<"STANDING", "DESCENDING">>, <<"DESCENDING", "BOTTOM">>,
     <<"BOTTOM", "ASCENDING">>, <<"ASCENDING", "STANDING">>}

\* the last call committed a debounced transition
Committed == <<run_phase, state>> \in DebouncedEdges

\* C14 as stated: a debounced transition commits on a frame only if its
\* qualifying condition held on that frame and on each of the 4 frames
\* delivered to analyze immediately before it.
C14_CommitNeedsFiveInARow == Committed => streak = state_transition_threshold + 1

\* C14 amended: a debounced transition commits on a frame only if its
\* qualifying condition held on that frame and on each of the 4 most recent
\* earlier frames of this stay in the phase on which analyze reached its state
\* machine; frames on which analyze returns early (no body) or fails before
\* the state machine are skipped: they neither advance nor reset the run.
C14_CommitNeedsFiveCounted == Committed => run_counted = state_transition_threshold + 1

\* a commit whose run was interrupted by a skipped frame
C14_Witness ==
    /\ run_phase = "DESCENDING" /\ state = "BOTTOM"
    /\ run_counted = state_transition_threshold + 1
    /\ streak < state_transition_threshold + 1

\* the knee angle analyze works with on the last frame
FrameAngle == current_knee_angle(frame)

NotQualifying(phase, angle) ==
    \/ phase = "STANDING" /\ angle >= 140
    \/ phase = "DESCENDING" /\ angle >= 98
    \/ phase = "BOTTOM" /\ angle <= 108
    \/ phase = "ASCENDING" /\ angle <= 160

\* C15: after any non-degraded frame on which the qualifying condition of the
\* current phase's candidate transition does not hold, the debounce counter is
\* 0; it is also 0 immediately after every committed transition.
C15_CounterZero ==
    /\ (~Degraded(frame) /\ NotQualifying(run_phase, FrameAngle)) => state_counter = 0
    /\ state # run_phase => state_counter = 0

C16_Edges == DebouncedEdges \cup {<<"DESCENDING", "STANDING">>}

C16_Step ==
    /\ result = EmptyDict => state = "STANDING"
    /\ state' # state => <<state, state'>> \in C16_Edges
    /\ rep_count' # rep_count => state = "ASCENDING" /\ state' = "STANDING"

\* C16: before the first call the phase is STANDING, and every call changes it along at most
\* one of the five edges STANDING->DESCENDING, DESCENDING->BOTTOM,
\* DESCENDING->STANDING, BOTTOM->ASCENDING, ASCENDING->STANDING; rep_count
\* changes only on a call that takes ASCENDING->STANDING.
C16_PhaseEdges == [][C16_Step]_vars

C16_Witness ==
    /\ run_phase = "ASCENDING" /\ state = "STANDING"
    /\ rep_count = 1
    /\ current_rep_quality # EmptyDict

LastResultUnchanged ==
    UNCHANGED <<rep_count, correct_reps, incorrect_reps, current_rep_quality, advice>>

\* C17: in DESCENDING a non-degraded frame with the knee angle above 140 moves
\* the phase to STANDING on that frame, whatever the debounce counter is, with
\* the counter at 0, no scoring, and rep_count, correct_reps and incorrect_reps
\* unchanged.
C17_AbortImmediate ==
    [][(state = "DESCENDING" /\ ~Degraded(frame') /\ current_knee_angle(frame') > 140)
         => /\ state' = "STANDING"
            /\ state_counter' = 0
            /\ LastResultUnchanged]_vars

C17_Witness ==
    /\ run_phase = "DESCENDING" /\ state = "STANDING"
    /\ ~Degraded(frame) /\ FrameAngle > 140
    /\ feedback.text = "Aborted: Go Deeper!"
    /\ state_counter = 0
    /\ rep_count = 0

\* C18: when ASCENDING->STANDING commits less than 1.0 s after the DESCENDING
\* commit, the rep is discarded: the phase becomes STANDING, the feedback is the
\* too-fast notice, and rep_count, correct_reps, incorrect_reps and the last
\* rep result are unchanged.
C18_TooFastDiscarded ==
    [][(state = "ASCENDING" /\ state' = "STANDING" /\ now' - rep_start_time < 1)
         => /\ feedback'.text = "Rep too fast (ignored)"
            /\ LastResultUnchanged]_vars

C18_Witness ==
    /\ run_phase = "ASCENDING" /\ state = "STANDING"
    /\ now = rep_start_time
    /\ feedback.text = "Rep too fast (ignored)"
    /\ rep_count = 0 /\ current_rep_quality = EmptyDict

Scored ==
    \/ correct_reps' # correct_reps
    \/ incorrect_reps' # incorrect_reps
    \/ (current_rep_quality' # current_rep_quality /\ current_rep_quality' # EmptyDict)

\* C19: when ASCENDING->STANDING commits at least 1.0 s after the DESCENDING
\* commit, rep_count goes up by one and exactly one of correct_reps and
\* incorrect_reps goes up by one; scoring happens on no other call.
C19_Step ==
    /\ (state = "ASCENDING" /\ state' = "STANDING" /\ now' - rep_start_time >= 1)
       => /\ rep_count' = rep_count + 1
          /\ correct_reps' + incorrect_reps' = correct_reps + incorrect_reps + 1
          /\ correct_reps' >= correct_reps /\ incorrect_reps' >= incorrect_reps
    /\ Scored => (state = "ASCENDING" /\ state' = "STANDING" /\ now' - rep_start_time >= 1)

C19_ValidRepCounted == [][C19_Step]_vars

\* C20: after the call that commits STANDING->DESCENDING the four fault
\* counters are 0, the minimum knee angle is 180, the descent, bottom and
\* ascent durations are 0 and the rep start time is that call's timestamp.
C20_ResetOnDescent ==
    (run_phase = "STANDING" /\ state = "DESCENDING")
    => /\ knee_valgus_flags = 0 /\ has_knee_over_toes_flags /\ knee_over_toes_flags = 0
       /\ heel_lift_flags = 0 /\ back_angle_flags = 0
       /\ min_knee_angle = 180
       /\ descent_duration = 0 /\ bottom_duration = 0 /\ ascent_duration = 0
       /\ rep_start_time = now

\* the committing frame shows lean, valgus and heel lift, one second in
C20_Witness ==
    /\ run_phase = "STANDING" /\ state = "DESCENDING"
    /\ result.valgus_detected
    /\ frame.r_heel_y = 424
    /\ heel_lift_flags = 0
    /\ rep_start_time = 1

Asymmetric == "Asymmetrical" \in Range(current_rep_quality.comments)

\* the advice of the first fault in the order depth, valgus, knee over toe,
\* heel lift, back lean, tempo, asymmetry
C21_StatedAdvice ==
    IF min_knee_angle > 115 THEN "Ass to grass! Don't cheat depth."
    ELSE IF min_knee_angle > 105 THEN "Get lower. Parallel at least."
    ELSE IF knee_valgus_flags > 5 THEN "Knees OUT! Fight the cave."
    ELSE IF knee_over_toes_flags > 5 THEN "Sit back! Save your knees."
    ELSE IF heel_lift_flags > 5 THEN "Heels GLUED to the floor."
    ELSE IF back_angle_flags > 5 THEN "Chest UP! This isn't a Good Morning."
    ELSE IF descent_duration < 1 THEN "Stop dive bombing! Control it."
    ELSE "Stop shifting. Push evenly."

\* the advice of the first critical fault (depth, valgus, knee over toe, heel
\* lift, back lean) and, when there is none, of the first deduction (depth,
\* tempo, asymmetry, back lean, valgus, knee over toe, heel lift)
C21_ListedAdvice ==
    IF min_knee_angle > 115 THEN "Ass to grass! Don't cheat depth."
    ELSE IF knee_valgus_flags > 30 THEN "Knees OUT! Fight the cave."
    ELSE IF knee_over_toes_flags > 45 THEN "Sit back! Save your knees."
    ELSE IF heel_lift_flags > 30 THEN "Heels GLUED to the floor."
    ELSE IF back_angle_flags > 45 THEN "Chest UP! This isn't a Good Morning."
    ELSE IF min_knee_angle > 105 THEN "Get lower. Parallel at least."
    ELSE IF descent_duration < 1 THEN "Stop dive bombing! Control it."
    ELSE IF Asymmetric THEN "Stop shifting. Push evenly."
    ELSE IF back_angle_flags > 5 THEN "Chest UP! This isn't a Good Morning."
    ELSE IF knee_valgus_flags > 5 THEN "Knees OUT! Fight the cave."
    ELSE IF knee_over_toes_flags > 5 THEN "Sit back! Save your knees."
    ELSE "Heels GLUED to the floor."

\* C21 as stated: for a completed rep with at least one recorded fault, the
\* advice is the canned message of the first fault present in the order depth,
\* valgus, knee-over-toe, heel-lift, back-lean, tempo, asymmetry.
C21_AdviceByStatedPriority ==
    (rep_count = 1 /\ ~NoFaultRecorded) => advice = C21_StatedAdvice

\* C21 amended: for a completed rep with at least one recorded fault, the
\* advice is the canned message of the first critical fault in the order depth,
\* valgus, knee-over-toe, heel-lift, back-lean, and, when no fault is critical,
\* of the first deduction in the order depth, tempo, asymmetry, back-lean,
\* valgus, knee-over-toe, heel-lift.
C21_AdviceByListOrder ==
    (rep_count = 1 /\ ~NoFaultRecorded) => advice = C21_ListedAdvice

\* a fast descent with sustained valgus below the critical threshold
C21_Witness ==
    /\ rep_count = 1
    /\ min_knee_angle = 97 /\ descent_duration = 0 /\ knee_valgus_flags = 6
    /\ advice = "Stop dive bombing! Control it."

C22_Critical ==
    \/ min_knee_angle > 115
    \/ knee_valgus_flags > 30
    \/ knee_over_toes_flags > 45
    \/ heel_lift_flags > 30
    \/ back_angle_flags > 45

\* C22: a completed rep is counted in correct_reps iff none of its faults
\* reaches the critical threshold (min knee angle > 115, valgus > 30,
\* knee-over-toe > 45, heel-lift > 30, back-lean > 45 frames), otherwise in
\* incorrect_reps; deductions below those thresholds leave it correct.
C22_CorrectIffNoCritical ==
    rep_count = 1
    => /\ correct_reps = (IF C22_Critical THEN 0 ELSE 1)
       /\ incorrect_reps = (IF C22_Critical THEN 1 ELSE 0)

\* every deduction taken, every counter at its critical threshold, none above
C22_Witness ==
    /\ rep_count = 1
    /\ min_knee_angle = 115 /\ descent_duration = 0 /\ Asymmetric
    /\ knee_valgus_flags = 30 /\ knee_over_toes_flags = 45
    /\ heel_lift_flags = 30 /\ back_angle_flags = 45
    /\ current_rep_quality.score = 15
    /\ correct_reps = 1 /\ incorrect_reps = 0

C23_Warnings == {"Knees over toes!", "Keep Heels Down!"}

\* the analyzer after the call, the feedback message apart, as the per-frame
\* increments and the state machine alone leave it
C23_NothingElse ==
    LET m == measure(frame')
        plain == state_machine(update_metrics(Self, m), m.current_knee_angle, now',
                               m.symmetry_diff, "")
    IN  /\ state' = plain.state
        /\ state_counter' = plain.state_counter
        /\ knee_valgus_flags' = plain.knee_valgus_flags
        /\ knee_over_toes_flags' = plain.knee_over_toes_flags
        /\ heel_lift_flags' = plain.heel_lift_flags
        /\ back_angle_flags' = plain.back_angle_flags
        /\ min_knee_angle' = plain.min_knee_angle

C23_FaultOn(f, ret) ==
    ret.knee_over_toes \/ ret.valgus_detected \/ heel_lift_detected(f) \/ lean_detected(f)

C24_Faults == {"valgus", "knee_over_toes", "heel_lift", "lean"}
C24_Deduction(x) ==
    CASE x = "valgus" -> "Knee valgus (caving in)"
      [] x = "knee_over_toes" -> "Knees crossed toes"
      [] x = "heel_lift" -> "Heels lifted"
      [] x = "lean" -> "Leaning forward"

\* C24: when a rep completes and a per-frame fault was seen on exactly one
\* frame since the DESCENDING commit, the rep carries no deduction for that
\* fault, and it is counted incorrect only for its depth or for another fault
\* seen on more than one frame.
C24_Step ==
    (state = "ASCENDING" /\ rep_count' = rep_count + 1)
    => \A x \in C24_Faults :
          seen'[x] = 1
          => /\ C24_Deduction(x) \notin Range(current_rep_quality'.comments)
             /\ incorrect_reps' # incorrect_reps
                  => \/ current_rep_quality'.depth > shallow_angle
                     \/ \E y \in C24_Faults \ {x} : seen'[y] > 1

C24_SingleFrameNoFault == [][C24_Step]_vars

\* a rep with forward lean on one frame has just been counted correct
C24_Witness ==
    /\ run_phase = "ASCENDING" /\ state = "STANDING" /\ feedback.rep = 1
    /\ seen.lean = 1 /\ back_angle_flags = 1
    /\ "Leaning forward" \notin Range(current_rep_quality.comments)
    /\ correct_reps = 1 /\ incorrect_reps = 0

\* the view of a frame, straight from its shoulders and hips:
\* 5 * shoulder_width < 2 * torso_height, both sides doubled
C25_View(f) ==
    LET width == Abs(f.l_shoulder_x - f.r_shoulder_x)
        height2 == Abs((f.l_shoulder_y + f.r_shoulder_y) - (f.l_hip_y + f.r_hip_y))
    IN  IF height2 = 0 THEN "FRONT"
        ELSE IF 10 * width < 2 * height2 THEN "SIDE"
        ELSE "FRONT"

C26_DepthBelowDeep ==
    /\ state \in {"BOTTOM", "ASCENDING"} => min_knee_angle < deep_threshold
    /\ current_rep_quality # EmptyDict
         => /\ current_rep_quality.depth < deep_threshold
            /\ Range(current_rep_quality.comments)
                   \cap {"Too shallow", "Depth could be better"} = {}
            /\ advice \notin {"Ass to grass! Don't cheat depth.",
                              "Get lower. Parallel at least."}

\* a rep has just been scored after frames at 98 degrees delayed its BOTTOM
\* commit by a second
C26_Witness ==
    /\ run_phase = "ASCENDING" /\ state = "STANDING" /\ rep_count = 1
    /\ current_rep_quality # EmptyDict /\ current_rep_quality.depth = 70
    /\ descent_duration = 1 /\ bottom_duration = 0

C27_Comments == Range(current_rep_quality.comments)

\* C27: a scored rep whose accumulator is past a critical threshold carries
\* the deduction of the same fault; a rep counted incorrect has comments other
\* than "Good Rep!" and a score of at most 90; a rep of score 100 is counted
\* correct.
C27_CriticalImpliesDeduction ==
    rep_count = 1
    => /\ min_knee_angle > 115 => "Too shallow" \in C27_Comments
       /\ knee_valgus_flags > 30 => "Knee valgus (caving in)" \in C27_Comments
       /\ knee_over_toes_flags > 45 => "Knees crossed toes" \in C27_Comments
       /\ heel_lift_flags > 30 => "Heels lifted" \in C27_Comments
       /\ back_angle_flags > 45 => "Leaning forward" \in C27_Comments
       /\ incorrect_reps = 1
            => /\ "Good Rep!" \notin C27_Comments
               /\ current_rep_quality.score <= 90
       /\ current_rep_quality.score = 100 => correct_reps = 1 /\ incorrect_reps = 0

\* a rep incorrect for its back lean alone, the cheapest critical fault
C27_Witness ==
    /\ rep_count = 1 /\ incorrect_reps = 1
    /\ back_angle_flags = 46
    /\ current_rep_quality.comments = <<"Leaning forward">>
    /\ current_rep_quality.score = 90

\* the frames after which the upright frames have brought the phase to
\* STANDING: none from STANDING, one from DESCENDING, one debounce window from
\* ASCENDING, two from BOTTOM
C28_Within(phase) ==
    CASE phase = "STANDING" -> 0
      [] phase = "DESCENDING" -> 1
      [] phase = "ASCENDING" -> state_transition_threshold + 1
      [] phase = "BOTTOM" -> 2 * (state_transition_threshold + 1)

\* C28: once every frame shows a body with the knee angle above 160, the
\* phase eventually becomes STANDING, at the latest after one frame from
\* DESCENDING, one debounce window from ASCENDING and two from BOTTOM; from
\* then on it stays STANDING, and rep_count has grown by at most 1.
C28_EventuallyStanding ==
    /\ standing_run.on ~> (state = "STANDING")
    /\ [](standing_run.on
            => /\ standing_run.frames >= C28_Within(standing_run.phase)
                    => state = "STANDING"
               /\ rep_count \in {standing_run.reps, standing_run.reps + 1})
    /\ [][(standing_run.on /\ state = "STANDING") => state' = "STANDING"]_vars

\* upright frames found the analyzer in BOTTOM and completed the rep
C28_Witness ==
    /\ standing_run.on /\ standing_run.phase = "BOTTOM"
    /\ standing_run.frames = 2 * (state_transition_threshold + 1)
    /\ state = "STANDING" /\ rep_count = standing_run.reps + 1

====
